---- MODULE Spec2Model ----
(***************************************************************************)
(* cypress-utils (src/index.js): the run-parallel / stress-test commands.  *)
(*                                                                         *)
(* The program resolves a list of spec files, hands a list of work items   *)
(* to mapLimit (the `async` library) with createTestSample as the worker   *)
(* and handleResults as the completion callback, and handleResults         *)
(* aggregates the raw results with computeResults.                         *)
(*                                                                         *)
(* Strings of the program are sequences of one-character strings, so that  *)
(* split and join are computed.  A JavaScript object is a function whose   *)
(* DOMAIN is the set of its own keys: a key that is absent reads as        *)
(* `undefined`.                                                            *)
(***************************************************************************)
EXTENDS Integers, Sequences, FiniteSets, TLC

\* ------------------------------------------------------------------ bounds
MaxSpecs == 2       \* longest resolved spec list
MaxTrials == 3      \* largest --trialCount
MaxLimit == 3       \* largest --threads / --limit
MaxItems == 4       \* longest work-item list handed to mapLimit
MaxResults == 3     \* longest raw result list given to computeResults alone
MaxEntries == 2     \* most PerFileRun entries in such a list

\* ------------------------------------------------------------- the inputs
\* Base names of spec files ("a.x", "a.y", "b.x"): two share the part before
\* the first '.', one does not.
SpecNames == { <<"a", ".", "x">>, <<"a", ".", "y">>, <<"b", ".", "x">> }

\* Two stats objects an engine run can report.  The first is the scenario's
\* {tests: 5, failures: 0}; the second lacks `failures`.
StatsFull == [k \in {"tests", "failures", "duration", "suites"} |->
                CASE k = "tests" -> 5 [] k = "failures" -> 0
                  [] k = "duration" -> 3 [] OTHER -> 1]
StatsPartial == [k \in {"tests", "startedAt", "endedAt"} |->
                CASE k = "tests" -> 2 [] k = "startedAt" -> 1 [] OTHER -> 4]
EngineStats == {StatsFull, StatsPartial}

\* A slot of the results array that nothing was written to, or that holds
\* `undefined` (what _asyncMap stores for a rejected invocation).
Hole == [undefined |-> TRUE]

\* ------------------------------------------------------ helpers on strings
RECURSIVE Join(_)
\* Array.prototype.join(','): the elements with "," between them.
Join(arr) ==
  IF arr = <<>> THEN <<>>
  ELSE IF Len(arr) = 1 THEN arr[1]
  ELSE arr[1] \o <<",">> \o Join(Tail(arr))

RECURSIVE SplitAt(_, _, _)
\* String.prototype.split(sep) for a one-character separator; `cur` is the
\* piece being read.
SplitAt(str, sep, cur) ==
  IF str = <<>> THEN <<cur>>
  ELSE IF str[1] = sep THEN <<cur>> \o SplitAt(Tail(str), sep, <<>>)
  ELSE SplitAt(Tail(str), sep, Append(cur, str[1]))

\* lodash castArray applied to a work item.  The items handed to mapLimit are
\* always strings (specFiles holds strings and repeatedSpecFiles is flattened),
\* and castArray wraps a string in a one-element array.
castArray(specIdentifiers) == <<specIdentifiers>>

\* ------------------------------------------------------------ aggregation
\* Faulty variant: the filter keeps every result.
resultIsSuccessLoose(result) == TRUE

\* resultIsSuccess: result.failures === undefined.
resultIsSuccess(result) == "failures" \notin DOMAIN result

RECURSIVE Flat(_)
\* Array.prototype.flat(): one level of nesting removed.
Flat(arrs) == IF arrs = <<>> THEN <<>> ELSE Head(arrs) \o Flat(Tail(arrs))

RECURSIVE MapRuns(_)
\* .map(({ runs }) => runs)
MapRuns(rs) == IF rs = <<>> THEN <<>> ELSE <<Head(rs).runs>> \o MapRuns(Tail(rs))

\* Faulty variant: the `suites` filter is missing.
IsFilteredNoSuites(statIdentifier) ==
  \/ statIdentifier = "startedAt"
  \/ statIdentifier = "endedAt"
  \/ statIdentifier = "duration"

\* The statistic names the reducer skips (`continue`).
IsFiltered(statIdentifier) ==
  \/ statIdentifier = "startedAt"
  \/ statIdentifier = "endedAt"
  \/ statIdentifier = "duration"
  \/ statIdentifier = "suites"

\* subjectStats[statIdentifier] || 0: undefined and 0 both give 0.
OrZero(subjectStats, statIdentifier) ==
  IF statIdentifier \in DOMAIN subjectStats /\ subjectStats[statIdentifier] # 0
  THEN subjectStats[statIdentifier]
  ELSE 0

\* Faulty variant: `=` in place of the accumulating sum.
AccumulateOverwrite(subjectStats, sampleStats) ==
  LET kept == {k \in DOMAIN sampleStats : ~IsFiltered(k)}
  IN [k \in DOMAIN subjectStats \cup kept |->
        IF k \in kept THEN sampleStats[k] ELSE subjectStats[k]]

\* The body of the inner reduce: the for-in loop over one sample's stats.
Accumulate(subjectStats, sampleStats) ==
  LET kept == {k \in DOMAIN sampleStats : ~IsFiltered(k)}
  IN [k \in DOMAIN subjectStats \cup kept |->
        IF k \in kept
        THEN OrZero(subjectStats, k) + sampleStats[k]
        ELSE subjectStats[k]]

EmptyObject == [k \in {} |-> 0]

RECURSIVE ReduceStats(_, _)
\* subjectResults.reduce(..., {}) from the left.
ReduceStats(subjectStats, subjectResults) ==
  IF subjectResults = <<>> THEN subjectStats
  ELSE ReduceStats(Accumulate(subjectStats, Head(subjectResults).stats),
                   Tail(subjectResults))

\* Faulty variant: the whole name is the key.
SubjectOfWholeName(run) == run.name

\* The groupBy key: result.spec.name.split('.')[0].
SubjectOf(run) == SplitAt(run.name, ".", <<>>)[1]

processedResults(rs) == Flat(MapRuns(SelectSeq(rs, resultIsSuccess)))

computeResults(rs) ==
  LET processed == processedResults(rs)
      subjects == {SubjectOf(processed[i]) : i \in 1..Len(processed)}
  IN [s \in subjects |->
        ReduceStats(EmptyObject,
                    SelectSeq(processed, LAMBDA run : SubjectOf(run) = s))]

\* ------------------------------------------------------- spec resolution
\* String.prototype.toLowerCase, on the letters the file names here use.
LowerOf(c) == IF c = "A" THEN "a" ELSE IF c = "B" THEN "b" ELSE c

toLowerCase(str) == [k \in 1..Len(str) |-> LowerOf(str[k])]

\* Faulty variant: the empty string is contained in no string.
includesNonEmpty(str, sub) ==
  /\ sub # <<>>
  /\ \E k \in 0..(Len(str) - Len(sub)) : SubSeq(str, k + 1, k + Len(sub)) = sub

\* String.prototype.includes: `sub` occurs in `str`, letter case included.
includes(str, sub) ==
  \E k \in 0..(Len(str) - Len(sub)) : SubSeq(str, k + 1, k + Len(sub)) = sub

\* argv.fileIdentifiers as yargs leaves it: the default '' when no positional
\* was given, else the array of the positionals.
DefaultIdentifiers == [isArray |-> FALSE, value |-> <<>>]

\* castArray(argv.fileIdentifiers): an array stays, another value is wrapped.
castArrayIdentifiers(raw) == IF raw.isArray THEN raw.value ELSE <<raw.value>>

\* The filter callback of line 184: some identifier occurs in the lower-cased
\* file name.
MatchesIdentifier(fileName, identifiers) ==
  \E k \in DOMAIN identifiers : includes(toLowerCase(fileName), identifiers[k])

RECURSIVE Basename(_)
\* The part of a path after its last '/'.
Basename(path) ==
  IF \A k \in DOMAIN path : path[k] # "/" THEN path
  ELSE Basename(Tail(path))

RECURSIVE GlobMatch(_, _)
\* A glob pattern of literal characters and '*' against a string: '*' stands
\* for any run of characters other than '/', a leading '.' included (dot: true).
GlobMatch(str, pat) ==
  IF pat = <<>> THEN str = <<>>
  ELSE IF Head(pat) = "*"
       THEN \E k \in 0..Len(str) :
              /\ \A j \in 1..k : str[j] # "/"
              /\ GlobMatch(SubSeq(str, k + 1, Len(str)), Tail(pat))
       ELSE /\ str # <<>>
            /\ Head(str) = Head(pat)
            /\ GlobMatch(Tail(str), Tail(pat))

\* Faulty variant: without matchBase, the pattern is held against the path.
minimatchWholePath(specFile, excludePattern) == GlobMatch(specFile, excludePattern)

\* minimatch(specFile, excludePattern, { dot: true, matchBase: true }): a
\* pattern without '/' is held against the base name of the path.
minimatch(specFile, excludePattern) ==
  IF \E k \in DOMAIN excludePattern : excludePattern[k] = "/"
  THEN GlobMatch(specFile, excludePattern)
  ELSE GlobMatch(Basename(specFile), excludePattern)

\* The filter callback of line 191, negated: some exclude pattern matches.
IsExcluded(specFile, patterns) ==
  \E k \in DOMAIN patterns : minimatch(specFile, patterns[k])

\* Lines 183 to 196: the globbed files that match an identifier, and of these,
\* when exclude patterns were given, the ones no pattern matches.
resolveSpecFiles(files, identifiers, patterns) ==
  LET matched == SelectSeq(files, LAMBDA fileName : MatchesIdentifier(fileName, identifiers))
  IN IF Len(patterns) > 0
     THEN SelectSeq(matched, LAMBDA specFile : ~IsExcluded(specFile, patterns))
     ELSE matched

\* Faulty variant: an empty list goes on to the command handler.
IsEmptyListNever(files) == FALSE

\* specFiles.length === 0
IsEmptyList(files) == Len(files) = 0

\* ------------------------------------------------------------ the program
VARIABLES
  rootExists,         \* the directory argv.specPattern names exists
  globOutcome,        \* glob.sync: "ok", or it throws "ENOENT" or another "error"
  globbed,            \* what glob.sync returns, in its order
  fileIdentifiers,    \* argv.fileIdentifiers as parsed
  excludeSpecPattern, \* argv.excludeSpecPattern
  warning,            \* what resolution printed: "none", "couldNotLoad", "noSpecFiles", "error"
  command,        \* argv._[0]: "run-parallel" or "stress-test"
  trialCount,     \* argv.trialCount (0 stands for the absent option of run-parallel)
  limit,          \* argv.limit
  specFiles,      \* the resolved spec files
  pc,             \* "start": before resolution; "returned": the early return;
                  \* "main": before commandHandlers[command](); "mapLimit": after it
  items,          \* the collection handed to mapLimit
  nextIdx,        \* eachOfLimit's iterator: the next element nextElem() returns
  counter,        \* _asyncMap's counter
  index,          \* index[i]: the `index` the wrapper of item i captured (0: not started)
  running,        \* eachOfLimit's running
  done,           \* eachOfLimit's done
  results,        \* _asyncMap's results array
  callbackCalled, \* once(callback) has fired
  status,         \* per work item: "Pending", "Running", "Completed", "FatalAborted"
  produced,       \* per work item: what its createTestSample invocation resolved with
  hrCalls,        \* number of invocations of handleResults
  hrError,        \* the error argument of the last invocation
  hrResults,      \* the results argument of the last invocation
  report,         \* formattedResults, what handleResults printed
  reported,       \* handleResults reached its printing
  thrown,         \* handleResults threw
  exited,         \* the process ended on the uncaught exception
  outOfOrder      \* history: some invocation settled before an earlier item's did

vars == << rootExists, globOutcome, globbed, fileIdentifiers, excludeSpecPattern, warning,
           command, trialCount, limit, specFiles, pc, items, nextIdx, counter, index,
           running, done, results, callbackCalled, status, produced, hrCalls, hrError,
           hrResults, report, reported, thrown, exited, outOfOrder >>

NoError == "null"
FatalError == "error"

\* The mutable state of one mapLimit call and of its callback, as a record.
Cur ==
  [ nextIdx |-> nextIdx, counter |-> counter, index |-> index, running |-> running,
    done |-> done, results |-> results, callbackCalled |-> callbackCalled,
    status |-> status, hrCalls |-> hrCalls, hrError |-> hrError,
    hrResults |-> hrResults, report |-> report, reported |-> reported,
    thrown |-> thrown ]

Assign(m) ==
  /\ nextIdx' = m.nextIdx
  /\ counter' = m.counter
  /\ index' = m.index
  /\ running' = m.running
  /\ done' = m.done
  /\ results' = m.results
  /\ callbackCalled' = m.callbackCalled
  /\ status' = m.status
  /\ hrCalls' = m.hrCalls
  /\ hrError' = m.hrError
  /\ hrResults' = m.hrResults
  /\ report' = m.report
  /\ reported' = m.reported
  /\ thrown' = m.thrown

\* handleResults(error, results).  It throws the error it is given.  Otherwise
\* it prints computeResults(results); destructuring `runs` from an undefined
\* entry is a TypeError, which leaves handleResults the same way.
handleResults(m, error, res) ==
  LET called == [m EXCEPT !.hrCalls = @ + 1, !.hrError = error, !.hrResults = res]
  IN IF error # NoError \/ \E k \in DOMAIN res : res[k] = Hole
     THEN [called EXCEPT !.thrown = TRUE]
     ELSE [called EXCEPT !.report = computeResults(res), !.reported = TRUE]

\* mapLimit(coll, limit, iteratee, callback) is the `async` package's, which
\* index.js requires and calls from commandHandlers.  It is _asyncMap over
\* eachOfLimit(limit):
\*   _asyncMap:   for each element started, index = counter++, and when the
\*                iteratee reports (err, v): results[index] = v; iterCb(err);
\*                at the end callback(err, results).
\*   eachOfLimit: callback = once(callback); replenish() starts elements while
\*                running < limit && !done; iterateeCallback(err) takes one from
\*                running, and on err sets done and calls callback(err), on
\*                done && running <= 0 calls callback(null), else replenishes.
\* The definitions below follow that code statement by statement.

\* Faulty variant: the callback is not wrapped in once().
callbackEveryTime(m, err) == handleResults(m, err, m.results)

\* callback = once(callback): only the first call reaches handleResults.
callback(m, err) ==
  IF m.callbackCalled THEN m
  ELSE handleResults([m EXCEPT !.callbackCalled = TRUE], err, m.results)

\* Faulty variants of the loop condition: <= for <, no test of done, and a
\* limit taken one too low.
MayStartInclusive(m, lim) == m.running <= lim /\ ~m.done

MayStartAfterError(m, lim) == m.running < lim

MayStartBelowLimit(m, lim) == m.running + 1 < lim /\ ~m.done

\* The loop condition of replenish: running < limit && !done.
MayStart(m, lim) == m.running < lim /\ ~m.done

RECURSIVE replenishFromEnd(_, _, _)
\* Faulty variant: the iterator hands out the last element not yet started.
replenishFromEnd(m, coll, lim) ==
  LET waiting == {i \in DOMAIN m.status : m.status[i] = "Pending"}
  IN IF ~(m.running < lim /\ ~m.done) THEN m
     ELSE IF waiting = {}
          THEN LET ended == [m EXCEPT !.done = TRUE]
               IN IF m.running <= 0 THEN callback(ended, NoError) ELSE ended
          ELSE LET last == CHOOSE i \in waiting : \A j \in waiting : j <= i
               IN replenishFromEnd([m EXCEPT !.running = @ + 1,
                                             !.nextIdx = @ + 1,
                                             !.counter = @ + 1,
                                             !.index[last] = last,
                                             !.status[last] = "Running"],
                                   coll, lim)

RECURSIVE replenish(_, _, _)
\* eachOfLimit's replenish, with the wrapper of _asyncMap that each start runs
\* (index = counter++, then the call of createTestSample).
replenish(m, coll, lim) ==
  IF ~MayStart(m, lim) THEN m
  ELSE IF m.nextIdx > Len(coll)
       THEN LET ended == [m EXCEPT !.done = TRUE]
            IN IF m.running <= 0 THEN callback(ended, NoError) ELSE ended
       ELSE replenish([m EXCEPT !.running = @ + 1,
                                !.nextIdx = @ + 1,
                                !.counter = @ + 1,
                                !.index[m.nextIdx] = m.counter + 1,
                                !.status[m.nextIdx] = "Running"],
                      coll, lim)

\* Faulty variant: a fixed batch, refilled only when nothing is in flight.
iterateeCallbackBatch(m, err, coll, lim) ==
  LET m1 == [m EXCEPT !.running = @ - 1]
  IN IF err # NoError THEN callback([m1 EXCEPT !.done = TRUE], err)
     ELSE IF m1.done /\ m1.running <= 0 THEN callback([m1 EXCEPT !.done = TRUE], NoError)
     ELSE IF m1.running > 0 THEN m1
     ELSE replenish(m1, coll, lim)

\* Faulty variant: an error is held back until nothing is in flight.
iterateeCallbackAwaitsInFlight(m, err, coll, lim) ==
  LET m1 == [m EXCEPT !.running = @ - 1, !.done = (@ \/ err # NoError)]
      failed == \E i \in DOMAIN m1.status : m1.status[i] = "FatalAborted"
  IN IF m1.done /\ m1.running <= 0
     THEN callback(m1, IF failed THEN FatalError ELSE NoError)
     ELSE replenish(m1, coll, lim)

\* eachOfLimit's iterateeCallback(err).  createTestSample is async, so it
\* never completes inside replenish and `looping` is false here.
iterateeCallback(m, err, coll, lim) ==
  LET m1 == [m EXCEPT !.running = @ - 1]
  IN IF err # NoError THEN callback([m1 EXCEPT !.done = TRUE], err)
     ELSE IF m1.done /\ m1.running <= 0 THEN callback([m1 EXCEPT !.done = TRUE], NoError)
     ELSE replenish(m1, coll, lim)

\* Faulty variant: a value with a top-level `failures` key is not stored.
StoreResultSkipsFailures(res, idx, v) ==
  IF "failures" \in DOMAIN v THEN res ELSE [res EXCEPT ![idx] = v]

\* Faulty variant: results.push(v), the values in completion order.
StoreInCompletionOrder(res, idx, v) ==
  LET free == {k \in DOMAIN res : res[k] = Hole}
  IN IF free = {} THEN res
     ELSE [res EXCEPT ![CHOOSE k \in free : \A j \in free : k <= j] = v]

\* _asyncMap's results[index] = v.
StoreResult(res, idx, v) == [res EXCEPT ![idx] = v]

\* Array(trialCount).fill(specFiles)
Fill(n, v) == [k \in 1..n |-> v]

\* Faulty variant: the trial count is ignored.
repeatedSpecFilesOnce(n, files) == files

\* Array(argv.trialCount).fill(specFiles).flat()
repeatedSpecFiles(n, files) == Flat(Fill(n, files))

\* What cypress.run can do with `spec` (a comma-joined list): resolve with the
\* runs of these specs, resolve with a failure object ({failures, message}), or
\* reject.
EngineOutcomes(spec) ==
  LET names == SplitAt(spec, ",", <<>>)
  IN { [err |-> NoError,
        value |-> [runs |-> [k \in 1..Len(names) |-> [name |-> names[k], stats |-> st]]]]
         : st \in EngineStats }
     \cup { [err |-> NoError, value |-> [failures |-> 1]] }
     \cup { [err |-> FatalError, value |-> Hole] }

\* createTestSample: the outcome of cypress.run, returned or rethrown as it is.
createTestSample(specIdentifiers) == EngineOutcomes(Join(castArray(specIdentifiers)))

\* The non-empty lists of files glob.sync can return, without repeats.
SpecLists ==
  UNION { { s \in [1..n -> SpecNames] : \A a, b \in 1..n : a # b => s[a] # s[b] }
          : n \in 1..MaxSpecs }

\* How glob.sync can end.
GlobOutcomes == {"ok", "ENOENT", "error"}

\* The state module code starts resolution in: argv is parsed, `let specFiles`
\* holds nothing yet and nothing was started or printed.
\* glob.sync does not throw on a directory that is missing: it reads it as a
\* directory without entries and returns the empty list.
Fresh ==
  /\ rootExists \in BOOLEAN
  /\ globOutcome \in GlobOutcomes
  /\ ~rootExists => (globOutcome = "ok" /\ globbed = <<>>)
  /\ globOutcome # "ok" => globbed = <<>>
  /\ warning = "none"
  /\ specFiles = <<>>
  /\ pc = "start"
  /\ items = <<>>
  /\ nextIdx = 1
  /\ counter = 0
  /\ index = <<>>
  /\ running = 0
  /\ done = FALSE
  /\ results = <<>>
  /\ callbackCalled = FALSE
  /\ status = <<>>
  /\ produced = <<>>
  /\ hrCalls = 0
  /\ hrError = NoError
  /\ hrResults = <<>>
  /\ report = EmptyObject
  /\ reported = FALSE
  /\ thrown = FALSE
  /\ exited = FALSE
  /\ outOfOrder = FALSE

\* Every command, trial count and limit, over a spec directory of lower-case
\* names, with no identifier or the identifier "b", and nothing excluded.
Init ==
  /\ command \in {"run-parallel", "stress-test"}
  /\ trialCount \in 0..MaxTrials
  /\ command = "run-parallel" => trialCount = 0
  /\ limit \in 1..MaxLimit
  /\ globbed \in SpecLists \cup {<<>>}
  /\ Len(globbed) * trialCount <= MaxItems
  /\ fileIdentifiers \in {DefaultIdentifiers, [isArray |-> TRUE, value |-> << <<"b">> >>]}
  /\ excludeSpecPattern = <<>>
  /\ Fresh

\* Lines 181 to 225: resolve the spec files; when glob.sync throws, or no file
\* is left, print the warning (or the error) and return.
Resolve ==
  /\ pc = "start"
  /\ fileIdentifiers' = [isArray |-> TRUE, value |-> castArrayIdentifiers(fileIdentifiers)]
  /\ IF globOutcome # "ok"
     THEN /\ specFiles' = specFiles
          /\ warning' = IF globOutcome = "ENOENT" THEN "couldNotLoad" ELSE "error"
          /\ pc' = "returned"
     ELSE LET found == resolveSpecFiles(globbed, castArrayIdentifiers(fileIdentifiers),
                                        excludeSpecPattern)
          IN /\ specFiles' = found
             /\ warning' = IF IsEmptyList(found) THEN "noSpecFiles" ELSE "none"
             /\ pc' = IF IsEmptyList(found) THEN "returned" ELSE "main"
  /\ UNCHANGED << rootExists, globOutcome, globbed, excludeSpecPattern, command, trialCount, limit,
                  items, nextIdx, counter, index, running, done, results, callbackCalled,
                  status, produced, hrCalls, hrError, hrResults, report, reported,
                  thrown, exited, outOfOrder >>

\* commandHandlers[command](): build the collection and call mapLimit, which
\* runs replenish once before returning.
Dispatch ==
  /\ pc = "main"
  /\ LET coll == IF command = "run-parallel" THEN specFiles
                 ELSE repeatedSpecFiles(trialCount, specFiles)
         fresh == [Cur EXCEPT !.index = [i \in 1..Len(coll) |-> 0],
                              !.status = [i \in 1..Len(coll) |-> "Pending"],
                              !.results = [i \in 1..Len(coll) |-> Hole]]
     IN /\ items' = coll
        /\ produced' = [i \in 1..Len(coll) |-> Hole]
        /\ Assign(replenish(fresh, coll, limit))
  /\ pc' = "mapLimit"
  /\ UNCHANGED << rootExists, globOutcome, globbed, fileIdentifiers, excludeSpecPattern, warning,
                  command, trialCount, limit, specFiles, exited, outOfOrder >>

\* The createTestSample invocation of item i settles: the wrapper of _asyncMap
\* stores its value and eachOfLimit's iterateeCallback runs.
Settle(i) ==
  /\ pc = "mapLimit"
  /\ ~exited
  /\ i \in DOMAIN status
  /\ status[i] = "Running"
  /\ \E out \in createTestSample(items[i]) :
       LET settled == [Cur EXCEPT
                         !.status[i] = IF out.err = NoError THEN "Completed"
                                       ELSE "FatalAborted",
                         !.results = StoreResult(@, index[i], out.value)]
       IN /\ produced' = [produced EXCEPT ![i] = out.value]
          /\ Assign(iterateeCallback(settled, out.err, items, limit))
  /\ outOfOrder' = (outOfOrder \/ \E j \in 1..(i - 1) : status[j] = "Running")
  /\ UNCHANGED << rootExists, globOutcome, globbed, fileIdentifiers, excludeSpecPattern, warning,
                  command, trialCount, limit, specFiles, pc, items, exited >>

\* The exception handleResults threw is uncaught: the process ends.
ProcessExit ==
  /\ thrown
  /\ ~exited
  /\ exited' = TRUE
  /\ UNCHANGED << rootExists, globOutcome, globbed, fileIdentifiers, excludeSpecPattern, warning,
                  command, trialCount, limit, specFiles, pc, items, nextIdx, counter,
                  index, running, done, results, callbackCalled, status, produced,
                  hrCalls, hrError, hrResults, report, reported, thrown, outOfOrder >>

Next ==
  \/ Resolve
  \/ Dispatch
  \/ \E i \in 1..MaxItems : Settle(i)
  \/ ProcessExit

Spec == Init /\ [][Next]_vars

\* The scheduling the liveness claims assume: the command handler runs, and
\* every invocation that was started and can still report settles.
LiveSpec ==
  /\ Init /\ [][Next]_vars
  /\ WF_vars(Resolve)
  /\ WF_vars(Dispatch)
  /\ \A i \in 1..MaxItems : WF_vars(Settle(i))

\* ------------------------------------------------ resolution on its own
\* Paths under the spec root "e", in either letter case.
PathNames ==
  { <<"e", "/", "a", ".", "x">>, <<"e", "/", "a", ".", "y">>,
    <<"e", "/", "B", ".", "x">>, <<"e", "/", "b", ".", "y">> }

PathLists ==
  UNION { { s \in [1..n -> PathNames] : \A a, b \in 1..n : a # b => s[a] # s[b] }
          : n \in 0..MaxSpecs }

\* Positionals: lower-case and upper-case identifiers, one that is in no
\* path, and the empty string.
IdentifierLists ==
  { << <<"a">> >>, << <<"b">> >>, << <<"B">> >>, << <<"z">> >>, << <<>> >>,
    << <<"a">>, <<"B">> >>, << <<".", "y">>, <<"z">> >> }

\* --excludeSpecPattern values.
ExcludeLists ==
  { <<>>, << <<"*", ".", "y">> >>, << <<"a", ".", "x">> >>,
    << <<"e", "/", "b", "*">> >>, << <<"*", ".", "y">>, <<"a", ".", "*">> >> }

\* Every identifier and exclude list over every directory content, run one
\* invocation at a time.
InitResolve ==
  /\ command \in {"run-parallel", "stress-test"}
  /\ trialCount = IF command = "stress-test" THEN 1 ELSE 0
  /\ limit = 1
  /\ globbed \in PathLists
  /\ fileIdentifiers \in {DefaultIdentifiers}
                          \cup { [isArray |-> TRUE, value |-> ids] : ids \in IdentifierLists }
  /\ excludeSpecPattern \in ExcludeLists
  /\ Fresh

SpecResolve == InitResolve /\ [][Next]_vars

\* ------------------------------------------- computeResults on its own
\* The PerFileRun records ({spec: {name}, stats}) of the raw results.
PerFileRuns == { [name |-> n, stats |-> st] : n \in SpecNames, st \in EngineStats }

RECURSIVE Entries(_)
\* The number of PerFileRun entries of a raw result list.
Entries(rs) == IF rs = <<>> THEN 0 ELSE Len(Head(rs).runs) + Entries(Tail(rs))

\* A raw result before its runs are known: without and with the top-level
\* `failures` key.
BareResults == { [runs |-> <<>>], [failures |-> 1, runs |-> <<>>] }

InitAgg ==
  /\ rootExists = TRUE
  /\ globOutcome = "ok"
  /\ globbed = <<>>
  /\ fileIdentifiers = DefaultIdentifiers
  /\ excludeSpecPattern = <<>>
  /\ warning = "none"
  /\ command = "run-parallel"
  /\ trialCount = 0
  /\ limit = 1
  /\ specFiles = <<>>
  /\ pc = "results"
  /\ items = <<>>
  /\ nextIdx = 1
  /\ counter = 0
  /\ index = <<>>
  /\ running = 0
  /\ done = TRUE
  /\ results = <<>>
  /\ callbackCalled = FALSE
  /\ status = <<>>
  /\ produced = <<>>
  /\ hrCalls = 0
  /\ hrError = NoError
  /\ hrResults = <<>>
  /\ report = EmptyObject
  /\ reported = FALSE
  /\ thrown = FALSE
  /\ exited = FALSE
  /\ outOfOrder = FALSE

\* The raw result list that handleResults will be given grows by one result.
AddResult ==
  /\ pc = "results"
  /\ Len(results) < MaxResults
  /\ \E r \in BareResults : results' = Append(results, r)
  /\ UNCHANGED << rootExists, globOutcome, globbed, fileIdentifiers, excludeSpecPattern, warning,
                  command, trialCount, limit, specFiles, pc, items, nextIdx, counter,
                  index, running, done, callbackCalled, status, produced, hrCalls,
                  hrError, hrResults, report, reported, thrown, exited, outOfOrder >>

\* The last raw result grows by one PerFileRun.
AddRun ==
  /\ pc = "results"
  /\ results # <<>>
  /\ Entries(results) < MaxEntries
  /\ \E p \in PerFileRuns :
       results' = [results EXCEPT ![Len(results)].runs = Append(@, p)]
  /\ UNCHANGED << rootExists, globOutcome, globbed, fileIdentifiers, excludeSpecPattern, warning,
                  command, trialCount, limit, specFiles, pc, items, nextIdx, counter,
                  index, running, done, callbackCalled, status, produced, hrCalls,
                  hrError, hrResults, report, reported, thrown, exited, outOfOrder >>

\* handleResults(null, results) on a complete raw result list.
Aggregate ==
  /\ pc = "results"
  /\ Assign(callback(Cur, NoError))
  /\ pc' = "handled"
  /\ UNCHANGED << rootExists, globOutcome, globbed, fileIdentifiers, excludeSpecPattern, warning,
                  command, trialCount, limit, specFiles, items, produced, exited,
                  outOfOrder >>

NextAgg == AddResult \/ AddRun \/ Aggregate

SpecAgg == InitAgg /\ [][NextAgg]_vars

\* ------------------------------------------------------------ the claims
InFlight == {i \in DOMAIN status : status[i] = "Running"}
Pending == {i \in DOMAIN status : status[i] = "Pending"}
Fatal == {i \in DOMAIN status : status[i] = "FatalAborted"}
Completed == {i \in DOMAIN status : status[i] = "Completed"}

\* C1: at every moment of a run-parallel or stress-test execution, the number
\* of createTestSample invocations that have started and not yet settled is at
\* most the concurrency limit.
C1_InFlightAtMostLimit == Cardinality(InFlight) <= limit

\* The limit is what holds an item back: `limit` invocations are in flight,
\* more than one, and an item is still waiting.
C1_Witness == limit >= 2 /\ Cardinality(InFlight) = limit /\ Pending # {}

\* C2: when handleResults is given a result list (no fatal failure), every
\* work item has completed, the list has one entry per work item, and entry i
\* is what the invocation for item i resolved with, whatever the completion
\* order was.
C2_ResultsInInputOrder ==
  (hrCalls >= 1 /\ hrError = NoError) =>
     /\ pc = "mapLimit"
     /\ \A i \in DOMAIN status : status[i] = "Completed"
     /\ Len(hrResults) = Len(items)
     /\ \A i \in 1..Len(items) : hrResults[i] = produced[i] /\ produced[i] # Hole

\* A result list was handed over after invocations settled out of input
\* order, with different results at the first two positions.
C2_Witness ==
  /\ hrCalls = 1 /\ hrError = NoError /\ outOfOrder
  /\ Len(items) >= 3
  /\ hrResults[1] # hrResults[2]

\* C3 (as stated): handleResults is invoked with the fatal error only after
\* every invocation that was in flight at the moment of the error has settled.
\* No invocation starts after the error, so any invocation still in flight
\* once the error was reported was in flight at the moment of the error.
C3_ReportedAfterInFlightSettled == (hrError = FatalError) => InFlight = {}

\* C3 (amended): the fatal error is reported to handleResults in the step in
\* which the first failing invocation settles: whenever some invocation has
\* failed fatally, handleResults has already been invoked, once, with the error.
C3_FatalReportedAtOnce == (Fatal # {}) => (hrCalls = 1 /\ hrError = FatalError)

\* The error has been reported while another invocation is still in flight.
C3_Witness == hrError = FatalError /\ hrCalls = 1 /\ InFlight # {}

\* C4: once an invocation has failed fatally, no Pending item is started, and
\* an invocation that is Running stays Running until it settles by itself.
C4_NoStartAfterFatal ==
  [][ (Fatal # {}) =>
        \A i \in DOMAIN status :
          /\ status[i] = "Pending" => status'[i] = "Pending"
          /\ status[i] = "Running" => status'[i] \in {"Running", "Completed", "FatalAborted"}
    ]_vars

\* Of three invocations in flight, the first failed fatally and the second
\* completed after that (had it completed before, item 4 would have been
\* started): the third is still in flight, a slot is free, and item 4 is still
\* Pending.
C4_Witness ==
  /\ limit = 3 /\ Len(items) >= 4
  /\ status[1] = "FatalAborted" /\ status[2] = "Completed"
  /\ status[3] = "Running" /\ status[4] = "Pending"

\* C5: handleResults is invoked at most once, it has been invoked once the
\* fan-out has nothing in flight, and its one invocation carries either the
\* fatal error, and then nothing is aggregated or printed, or no error and a
\* result list with an entry for every work item.
C5_HandleResultsOnce ==
  /\ hrCalls <= 1
  /\ (pc = "mapLimit" /\ InFlight = {}) => hrCalls = 1
  /\ hrCalls = 1 =>
        \/ hrError = FatalError /\ thrown /\ ~reported /\ report = EmptyObject
        \/ /\ hrError = NoError /\ reported /\ ~thrown
           /\ Len(hrResults) = Len(items)
           /\ \A k \in 1..Len(hrResults) : hrResults[k] # Hole

\* Two invocations failed fatally and a third completed: the later ones
\* settled after the error was reported, and handleResults ran once.
C5_Witness ==
  /\ Cardinality(Fatal) >= 2 /\ Completed # {} /\ InFlight = {}
  /\ hrCalls = 1

\* C6 (as stated): when every started invocation has settled, every work item
\* has ended with a recorded outcome, also when an invocation failed fatally.
C6_NoItemDropped ==
  (pc = "mapLimit" /\ InFlight = {}) => Pending = {}

\* Every work item has completed and its one result is stored at its index.
AllYielded ==
  /\ pc = "mapLimit"
  /\ \A i \in DOMAIN status :
       status[i] = "Completed" /\ results[i] # Hole /\ results[i] = produced[i]

\* C6 (amended): if every started invocation eventually settles, then, unless
\* resolution returned early and no work item exists, either some invocation
\* fails fatally or eventually every work item has yielded exactly one
\* RunResult, and keeps it.
C6_AllYieldUnlessFatal == <>((Fatal # {}) \/ pc = "returned" \/ [](AllYielded))

\* More items than the limit, all completed, none failed fatally.
C6_Witness ==
  /\ pc = "mapLimit" /\ Len(items) > limit /\ Fatal = {}
  /\ \A i \in DOMAIN status : status[i] = "Completed"

\* The specs one work item makes the engine run: the `spec` option of
\* cypress.run, read back at its commas.
SpecsOf(item) == SplitAt(Join(castArray(item)), ",", <<>>)

\* C7 (as stated): stress-test queues exactly trialCount work items, each
\* referencing the whole spec set.
C7_OneItemPerTrial ==
  (pc = "mapLimit" /\ command = "stress-test") =>
     /\ Len(items) = trialCount
     /\ \A k \in 1..Len(items) : SpecsOf(items[k]) = specFiles

\* C7 (amended): stress-test queues exactly trialCount * |S| work items, the
\* spec list repeated trialCount times in order, each work item referencing one
\* spec; with one matched spec these are trialCount items referencing it.
C7_OneItemPerTrialPerSpec ==
  (pc = "mapLimit" /\ command = "stress-test") =>
     /\ Len(items) = trialCount * Len(specFiles)
     /\ \A k \in 1..Len(items) :
          SpecsOf(items[k]) = << specFiles[((k - 1) % Len(specFiles)) + 1] >>
     /\ Len(specFiles) = 1 =>
          (Len(items) = trialCount /\ \A k \in 1..Len(items) : SpecsOf(items[k]) = specFiles)

\* Two trials of two specs have been queued.
C7_Witness ==
  /\ pc = "mapLimit" /\ command = "stress-test"
  /\ trialCount = 2 /\ Len(specFiles) = 2 /\ Len(items) = 4

\* The entries of the raw results rs that carry no top-level `failures` key,
\* as positions <<result, run>>.
CountedEntries(rs) ==
  { <<i, j>> \in (1..Len(rs)) \X (1..MaxEntries + 1) :
      "failures" \notin DOMAIN rs[i] /\ j <= Len(rs[i].runs) }

RECURSIVE PrefixBeforeDot(_)
\* The part of a name before its first '.'.
PrefixBeforeDot(name) ==
  IF name = <<>> \/ Head(name) = "." THEN <<>>
  ELSE <<Head(name)>> \o PrefixBeforeDot(Tail(name))

RECURSIVE SumOver(_, _, _)
\* The sum of statistic k over a set of positions, 0 where an entry lacks it.
SumOver(rs, positions, k) ==
  IF positions = {} THEN 0
  ELSE LET p == CHOOSE q \in positions : TRUE
           st == rs[p[1]].runs[p[2]].stats
       IN (IF k \in DOMAIN st THEN st[k] ELSE 0) + SumOver(rs, positions \ {p}, k)

EntriesOfSubject(rs, s) ==
  { p \in CountedEntries(rs) : PrefixBeforeDot(rs[p[1]].runs[p[2]].name) = s }

WithoutFailed(rs) == SelectSeq(rs, LAMBDA r : "failures" \notin DOMAIN r)

\* C8: the printed statistics are those of the same result list with every
\* result that carries a top-level `failures` key removed: such a result
\* contributes no subject and no count.
C8_FailedResultsIgnored ==
  reported =>
     /\ report = computeResults(WithoutFailed(hrResults))
     /\ DOMAIN report =
          { PrefixBeforeDot(hrResults[p[1]].runs[p[2]].name) : p \in CountedEntries(hrResults) }

\* The scenario: two successes with {tests: 5, failures: 0} and one
\* engine-level failure give tests 10, failures 0.
C8_Witness ==
  /\ reported /\ Len(hrResults) = 3
  /\ \E f \in 1..3 :
       /\ "failures" \in DOMAIN hrResults[f]
       /\ \A i \in (1..3) \ {f} :
            hrResults[i] = [runs |-> << [name |-> <<"a", ".", "x">>, stats |-> StatsFull] >>]
  /\ report[<<"a">>] = [k \in {"tests", "failures"} |-> IF k = "tests" THEN 10 ELSE 0]

\* C9: every statistic in the output is the exact sum of that field over the
\* PerFileRun entries of the successful results of that subject, an entry
\* without the field counting 0; and every field of such an entry that is not
\* excluded is in the output.
C9_StatsAreSums ==
  reported =>
     \A s \in DOMAIN report :
        /\ \A k \in DOMAIN report[s] :
             report[s][k] = SumOver(hrResults, EntriesOfSubject(hrResults, s), k)
        /\ \A p \in EntriesOfSubject(hrResults, s) :
             \A k \in DOMAIN hrResults[p[1]].runs[p[2]].stats :
                k \notin {"startedAt", "endedAt", "duration", "suites"} => k \in DOMAIN report[s]

\* One subject summed from two entries of which one lacks `failures`.
C9_Witness ==
  /\ reported
  /\ \E s \in DOMAIN report :
       /\ Cardinality(EntriesOfSubject(hrResults, s)) = 2
       /\ \E p \in EntriesOfSubject(hrResults, s) :
            "failures" \notin DOMAIN hrResults[p[1]].runs[p[2]].stats
       /\ report[s] = [k \in {"tests", "failures"} |-> IF k = "tests" THEN 7 ELSE 0]

\* C10: no subject's statistics in the output has one of the keys startedAt,
\* endedAt, duration, suites.
C10_NoExcludedKeys ==
  reported =>
     \A s \in DOMAIN report :
        DOMAIN report[s] \cap {"startedAt", "endedAt", "duration", "suites"} = {}

\* A subject was summed from entries that carry all four excluded keys.
C10_Witness ==
  /\ reported
  /\ \E s \in DOMAIN report :
       {"startedAt", "endedAt", "duration", "suites"} \subseteq
          UNION { DOMAIN hrResults[p[1]].runs[p[2]].stats : p \in EntriesOfSubject(hrResults, s) }

\* The identifiers after castArray, as resolution used them.
Identifiers == fileIdentifiers.value

\* `fileName` is one of the resolved spec files.
Resolved(fileName) == \E n \in DOMAIN specFiles : specFiles[n] = fileName

\* `id` occurs in `path` when letter case is ignored in both.
ContainsIgnoringCase(path, id) == includes(toLowerCase(path), toLowerCase(id))

\* C12: after resolution the resolved files are exactly the enumerated files
\* that contain some identifier when letter case is ignored in the path and in
\* the identifier (and that no exclude pattern matches).
C12_CaseInsensitiveMatch ==
  (pc # "start" /\ globOutcome = "ok") =>
     \A k \in DOMAIN globbed :
        Resolved(globbed[k]) <=>
          /\ \E n \in DOMAIN Identifiers : ContainsIgnoringCase(globbed[k], Identifiers[n])
          /\ ~IsExcluded(globbed[k], excludeSpecPattern)

\* C13: with the empty identifier of the default, resolution keeps every
\* enumerated file that no exclude pattern matches, in glob's order: all of
\* them when nothing is excluded.
C13_NoIdentifierKeepsAll ==
  (pc # "start" /\ globOutcome = "ok" /\ Identifiers = << <<>> >>) =>
     /\ specFiles = SelectSeq(globbed, LAMBDA f : ~IsExcluded(f, excludeSpecPattern))
     /\ excludeSpecPattern = <<>> => specFiles = globbed
     /\ \A k \in DOMAIN globbed :
          Resolved(globbed[k]) \/ IsExcluded(globbed[k], excludeSpecPattern)

\* run-parallel without positionals over two files, one of them excluded: the
\* other is the suite.
C13_Witness ==
  /\ pc = "main" /\ command = "run-parallel"
  /\ Identifiers = << <<>> >>
  /\ Len(globbed) = 2 /\ Len(specFiles) = 1
  /\ excludeSpecPattern # <<>>

\* `str` ends with `suffix`.
EndsWith(str, suffix) ==
  /\ Len(suffix) <= Len(str)
  /\ SubSeq(str, Len(str) - Len(suffix) + 1, Len(str)) = suffix

\* C14: no resolved file and no work item is matched by an exclude pattern,
\* whatever the identifiers matched; with the pattern *.y no file whose name
\* ends in .y is resolved or handed to an invocation.
C14_ExcludedNeverRun ==
  /\ \A n \in DOMAIN specFiles : ~IsExcluded(specFiles[n], excludeSpecPattern)
  /\ \A i \in DOMAIN items : ~IsExcluded(items[i], excludeSpecPattern)
  /\ (\E k \in DOMAIN excludeSpecPattern : excludeSpecPattern[k] = <<"*", ".", "y">>) =>
        /\ \A n \in DOMAIN specFiles : ~EndsWith(specFiles[n], <<".", "y">>)
        /\ \A i \in DOMAIN items : ~EndsWith(items[i], <<".", "y">>)

\* Both a.x and a.y contain the identifier "a"; *.y excludes the second, and
\* only the first was run.
C14_Witness ==
  /\ pc = "mapLimit"
  /\ Identifiers = << <<"a">> >>
  /\ excludeSpecPattern = << <<"*", ".", "y">> >>
  /\ globbed = << <<"e", "/", "a", ".", "x">>, <<"e", "/", "a", ".", "y">> >>
  /\ items = << <<"e", "/", "a", ".", "x">> >>
  /\ status[1] = "Completed"

\* C15: after a resolution in which glob.sync threw or no file was left, the
\* program has returned: a warning was printed (the error itself when it is
\* not ENOENT), no invocation was started, handleResults was not called and
\* nothing was reported.
C15_EarlyReturn ==
  (pc # "start" /\ (globOutcome # "ok" \/ specFiles = <<>>)) =>
     /\ pc = "returned"
     /\ globOutcome = "ENOENT" => warning = "couldNotLoad"
     /\ globOutcome = "error" => warning = "error"
     /\ globOutcome = "ok" => warning = "noSpecFiles"
     /\ items = <<>> /\ status = <<>> /\ running = 0 /\ counter = 0
     /\ hrCalls = 0 /\ ~reported /\ ~thrown /\ ~exited

\* stress-test with several trials and threads of an identifier that none of
\* the files contains.
C15_Witness ==
  /\ pc = "returned" /\ warning = "noSpecFiles"
  /\ command = "stress-test" /\ trialCount >= 2 /\ limit >= 2
  /\ globbed # <<>>

\* C21: a spec root that is missing is reported on the path of the catch
\* block, with the "could not load" warning, and an existing root in which
\* nothing matched with the "no spec files were found" warning, so the two are
\* told apart.
C21_MissingRootDistinguished ==
  /\ (pc # "start" /\ ~rootExists) => warning = "couldNotLoad"
  /\ (pc # "start" /\ rootExists /\ globOutcome = "ok" /\ specFiles = <<>>) =>
        warning = "noSpecFiles"

\* The orders in which n results can be listed.
Orderings(n) ==
  { f \in [1..n -> 1..n] : \A a, b \in 1..n : a # b => f[a] # f[b] }

\* C11: listing the raw results in any other order gives the same mapping
\* from subject to statistics.
C11_OrderIndependent ==
  reported =>
     \A f \in Orderings(Len(hrResults)) :
        computeResults([k \in 1..Len(hrResults) |-> hrResults[f[k]]]) = report

\* Two successful results for one subject with different statistics, where
\* the order of the additions could show.
C11_Witness ==
  /\ reported /\ Len(hrResults) >= 2
  /\ \E i, j \in 1..Len(hrResults) :
       /\ i < j
       /\ "failures" \notin DOMAIN hrResults[i] /\ "failures" \notin DOMAIN hrResults[j]
       /\ Len(hrResults[i].runs) = 1 /\ Len(hrResults[j].runs) = 1
       /\ PrefixBeforeDot(hrResults[i].runs[1].name) = PrefixBeforeDot(hrResults[j].runs[1].name)
       /\ hrResults[i].runs[1].stats # hrResults[j].runs[1].stats

\* C16: while no invocation has failed fatally and an item is Pending, exactly
\* `limit` invocations are in flight, and a completion starts the first
\* Pending item in the same step, whatever else is in flight.
C16_SlidingWindow ==
  /\ [](pc = "mapLimit" /\ Fatal = {} /\ Pending # {} => Cardinality(InFlight) = limit)
  /\ [][ (pc = "mapLimit" /\ Fatal = {} /\ Fatal' = {} /\ Pending # {}
           /\ Completed' # Completed)
          => LET first == CHOOSE i \in Pending : \A j \in Pending : i <= j
             IN status'[first] = "Running" ]_vars

\* Item 2 completed while item 1 was still in flight, and item 3 was started
\* next to it; item 4 waits.
C16_Witness ==
  /\ limit = 2 /\ Len(items) = 4 /\ Fatal = {}
  /\ status[1] = "Running" /\ status[2] = "Completed"
  /\ status[3] = "Running" /\ status[4] = "Pending"

\* The items whose invocation resolved with a top-level `failures` key.
EngineFailed ==
  {i \in DOMAIN status : status[i] = "Completed" /\ "failures" \in DOMAIN produced[i]}

\* C17: a result with a top-level `failures` key is stored at its own index and
\* does not stop the batch: if no invocation fails fatally, an item still
\* Pending has an invocation in flight before it, and once nothing is in
\* flight every item has completed and handleResults has been given, without
\* error, the list that holds the failure at its index.
C17_EngineFailureDoesNotAbort ==
  (EngineFailed # {}) =>
     /\ \A i \in EngineFailed : results[i] = produced[i]
     /\ Fatal = {} =>
          /\ Pending # {} => (InFlight # {} /\ ~done /\ hrCalls = 0)
          /\ InFlight = {} =>
               /\ Completed = DOMAIN status
               /\ hrCalls = 1 /\ hrError = NoError /\ reported
               /\ \A i \in EngineFailed : hrResults[i] = produced[i]

\* The first item resolved with a failure object, the others were run after
\* it, and handleResults got the list.
C17_Witness ==
  /\ limit = 1 /\ Len(items) >= 3 /\ 1 \in EngineFailed
  /\ Completed = DOMAIN status
  /\ hrCalls = 1 /\ hrError = NoError /\ "failures" \in DOMAIN hrResults[1]

\* C18: an item is started only from Pending and a settled item stays as it
\* is, so no item runs twice; a slot of the results array is written only
\* once, in the step in which the invocation of that index settles, with that
\* invocation's value.
C18_NoRetryWriteOnce ==
  [][ pc = "mapLimit" =>
        \A i \in DOMAIN status :
          /\ (status'[i] = "Running" /\ status[i] # "Running") => status[i] = "Pending"
          /\ status[i] \in {"Completed", "FatalAborted"} => status'[i] = status[i]
          /\ status[i] = "Pending" => status'[i] \in {"Pending", "Running"}
          /\ results'[i] # results[i] =>
                /\ results[i] = Hole
                /\ status[i] = "Running" /\ status'[i] = "Completed"
                /\ results'[i] = produced'[i]
    ]_vars

\* Every kind of outcome has been seen and settled, out of input order.
C18_Witness ==
  /\ outOfOrder /\ InFlight = {} /\ Pending = {}
  /\ Fatal # {} /\ EngineFailed # {} /\ Completed \ EngineFailed # {}

\* The trial an item of stress-test belongs to.
TrialOf(k) == ((k - 1) \div Len(specFiles)) + 1

\* C19: the items that have been started are an initial part of the input
\* list, each with its own position as index, so no item is started before an
\* earlier one; in stress-test no item of a later trial is started while an
\* item of an earlier trial is Pending.
C19_StartedInInputOrder ==
  pc = "mapLimit" =>
     /\ \A i, j \in DOMAIN status :
          (i < j /\ status[j] # "Pending") => status[i] # "Pending"
     /\ \A i \in DOMAIN status : status[i] # "Pending" => index[i] = i
     /\ command = "stress-test" =>
          \A i, j \in DOMAIN status :
             (TrialOf(i) < TrialOf(j) /\ status[j] # "Pending") => status[i] # "Pending"

\* Stress-test of two specs: the first trial was started before the second,
\* and the second trial's first item settled before the first trial's did.
C19_Witness ==
  /\ command = "stress-test" /\ Len(specFiles) = 2 /\ Len(items) = 4
  /\ status[1] = "Running" /\ status[3] = "Completed" /\ outOfOrder

\* C20: the subjects of the output are the parts before the first '.' of the
\* names of the successful runs, one subject for each such part, and all
\* entries with that part, from any result and any file, are summed into it.
C20_SubjectsByPrefix ==
  reported =>
     LET names == { hrResults[p[1]].runs[p[2]].name : p \in CountedEntries(hrResults) }
         prefixes == { PrefixBeforeDot(n) : n \in names }
     IN /\ DOMAIN report = prefixes
        /\ Cardinality(DOMAIN report) = Cardinality(prefixes)
        /\ \A s \in prefixes :
             report[s]["tests"] =
               SumOver(hrResults, { p \in CountedEntries(hrResults) :
                                     PrefixBeforeDot(hrResults[p[1]].runs[p[2]].name) = s },
                       "tests")

\* Runs of two files, a.x and a.y, from two results are one subject "a".
C20_Witness ==
  /\ reported /\ Len(hrResults) = 2
  /\ hrResults[1] = [runs |-> << [name |-> <<"a", ".", "x">>, stats |-> StatsFull] >>]
  /\ hrResults[2] = [runs |-> << [name |-> <<"a", ".", "y">>, stats |-> StatsPartial] >>]
  /\ DOMAIN report = { <<"a">> }
  /\ report[<<"a">>]["tests"] = 7

====
